---- MODULE Spec2Model ----
(***************************************************************************)
(* The AMQP producer of src/src/producer.c as a state machine.             *)
(*                                                                         *)
(* The program is one single-threaded event loop (run) that hands every    *)
(* event of the proactor to handle().  One action of the model is one      *)
(* event delivered to handle(), with everything handle() does for it.      *)
(* The broker and the proton library are the environment: they decide      *)
(* which event comes next and what it carries (credit, remote delivery     *)
(* state, condition).                                                      *)
(***************************************************************************)
EXTENDS Integers, Sequences, FiniteSets, TLC

(* ---------------------------------------------------------------- bounds *)

MaxCount == 3            \* largest message_count tried (-c)
MaxCredit == 2           \* largest link credit the broker has outstanding
MaxEncoded == 600        \* largest serialized size tried by the encode runs
LongTopicDoublings == 11 \* the over-long topic name has 2^11 characters
LongPrefixDoublings == 9 \* the over-long advertised prefix has 2^9 characters

(* ------------------------------------------------------ program constants *)

PN_MAX_ADDR == 1060            \* char amqp_topic[PN_MAX_ADDR]
amqp_topic_prefix_len == 255   \* scratch buffer of the prefix lookup
initial_size == 128            \* first capacity of the encode buffer
DEFAULT_AMQP_TOPIC_PREFIX == "topic://"

PN_ACCEPTED == "PN_ACCEPTED"
PN_REJECTED == "PN_REJECTED"
PN_RELEASED == "PN_RELEASED"
PN_MODIFIED == "PN_MODIFIED"
NoOutcome == "0"
\* pn_delivery_remote_state(d) as the handler can read it
RemoteStates == {PN_ACCEPTED, PN_REJECTED, PN_RELEASED, PN_MODIFIED, NoOutcome}

(* ---------------------------------------------------------------- strings *)

RECURSIVE Doubled(_, _)
\* s repeated 2^k times
Doubled(s, k) == IF k = 0 THEN s ELSE LET h == Doubled(s, k - 1) IN h \o h

LongTopic == Doubled("t", LongTopicDoublings)
LongPrefix == Doubled("p", LongPrefixDoublings)

\* -t: the target topic names tried
Topics == {"my_topic", "orders", LongTopic}

\* the remote connection properties tried, reduced to the topic-prefix entry
RemoteProperties ==
    { [kind |-> "absent",    value |-> ""],
      [kind |-> "string",    value |-> "acme/"],
      [kind |-> "string",    value |-> LongPrefix],
      [kind |-> "nonstring", value |-> ""] }

Digits == <<"0", "1", "2", "3", "4", "5", "6", "7", "8", "9">>

RECURSIVE sprintf_d(_)
\* sprintf(buf, "%d", n) for n >= 0
sprintf_d(n) ==
    IF n < 10 THEN Digits[n + 1] ELSE sprintf_d(n \div 10) \o Digits[(n % 10) + 1]

(* ------------------------------------------------------------------ state *)

VARIABLES
    message_count,      \* app->message_count
    amqp_address,       \* app->amqp_address, the topic name
    amqp_topic_prefix,  \* app->amqp_topic_prefix
    sent,               \* app->sent
    acknowledged,       \* app->acknowledged
    message_buffer,     \* app->message_buffer.size, 0 while .start is NULL
    exit_code,          \* static int exit_code
    running,            \* run() has not returned
    conn_local,         \* local end of the connection: uninit, active, closed
    session_open,       \* pn_session_open was called
    link_open,          \* pn_link_open was called
    target_address,     \* address set on the link target, "" while unset
    credit,             \* pn_link_credit(sender)
    deliveries,         \* the deliveries issued, in order: tag, body, size
    msgbuf,             \* the range the last encode_message returned
    remote_properties,  \* what the broker advertises in its open frame
    peer,               \* remote end: unopened, open, link_closed,
                        \* session_closed, closed
    transport_closed,   \* PN_TRANSPORT_CLOSED was delivered
    rejected_seen,      \* a non-accepted delivery event has been handled
    last                \* the event handled last and what it carried

vars == <<message_count, amqp_address, amqp_topic_prefix, sent, acknowledged,
          message_buffer, exit_code, running, conn_local, session_open,
          link_open, target_address, credit, deliveries, msgbuf,
          remote_properties, peer, transport_closed, rejected_seen, last>>

\* the record kept in last
\* (need: the serialized size asked of an encode step, 0 for an event)
Event(type, cond, outcome, c, ret) ==
    [type |-> type, cond |-> cond, outcome |-> outcome, credit |-> c,
     ret |-> ret, need |-> 0]

NoEvent == Event("none", FALSE, NoOutcome, 0, TRUE)

(* ------------------------------------------------------- library and util *)

\* pn_connection_open: the local end becomes active
pn_connection_open(c) == "active"

\* pn_connection_close: the local end is closed, whatever it was
pn_connection_close(c) == "closed"

\* get_data_map_string_property (util.h) for the key "topic-prefix": < 0 not found, 0 present but not a
\* string or too long for the buffer, > 0 found and written
get_data_map_string_property(properties, buflen) ==
    IF properties.kind = "absent" THEN [rc |-> -1, out |-> ""]
    ELSE IF properties.kind # "string" THEN [rc |-> 0, out |-> ""]
    ELSE IF Len(properties.value) + 1 > buflen THEN [rc |-> 0, out |-> ""]
    ELSE [rc |-> Len(properties.value), out |-> properties.value]

\* amqp_destination_address (util.h): prefix and address concatenated into a
\* buffer of outlen bytes, < 0 when they do not fit
amqp_destination_address(outlen, address, prefix) ==
    IF Len(prefix) + Len(address) + 1 > outlen
    THEN [rc |-> -1, out |-> ""]
    ELSE [rc |-> Len(prefix) + Len(address), out |-> prefix \o address]

\* size pn_message_encode needs for a durable message with a string body:
\* header section (3 + 4 bytes) and amqp-value section (3 + 2 + length)
pn_message_encode_size(body) == 12 + Len(body)

\* pn_dtag((const char *)&app->sent, sizeof(app->sent)): the four bytes of the
\* int, low byte first
pn_dtag(n) ==
    <<n % 256, (n \div 256) % 256, (n \div 65536) % 256, (n \div 16777216) % 256>>

(* --------------------------------------------------------------- the code *)

\* the part of the program state handle() reads and writes
App ==
    [message_count |-> message_count, amqp_address |-> amqp_address,
     amqp_topic_prefix |-> amqp_topic_prefix, sent |-> sent,
     acknowledged |-> acknowledged, message_buffer |-> message_buffer,
     exit_code |-> exit_code, conn_local |-> conn_local,
     session_open |-> session_open, link_open |-> link_open,
     target_address |-> target_address, credit |-> credit,
     deliveries |-> deliveries, msgbuf |-> msgbuf,
     remote_properties |-> remote_properties]

\* check_condition that closes the connection and forgets the exit code
check_condition_no_exit_code(s, cond) ==
    IF cond THEN [s EXCEPT !.conn_local = pn_connection_close(@)] ELSE s

\* check_condition failing the run whether or not the condition is set
check_condition_unconditional(s, cond) ==
    [s EXCEPT !.conn_local = pn_connection_close(@), !.exit_code = 1]

\* check_condition: a set condition is reported, the connection is closed
\* and the exit code becomes 1; an unset one changes nothing
check_condition(s, cond) ==
    IF cond
    THEN [s EXCEPT !.conn_local = pn_connection_close(@), !.exit_code = 1]
    ELSE s

\* the prefix lookup taking rc = 0 for found
set_topic_prefix_rc_zero(s) ==
    LET r == get_data_map_string_property(s.remote_properties,
                                          amqp_topic_prefix_len)
    IN  IF r.rc >= 0 THEN [s EXCEPT !.amqp_topic_prefix = r.out] ELSE s

\* the prefix lookup treating a property it cannot use as a failure
set_topic_prefix_strict(s) ==
    LET r == get_data_map_string_property(s.remote_properties,
                                          amqp_topic_prefix_len)
    IN  IF r.rc > 0
        THEN [s EXCEPT !.amqp_topic_prefix = r.out]
        ELSE [s EXCEPT !.exit_code = 1]

set_topic_prefix_from_connection(s) ==
    LET r == get_data_map_string_property(s.remote_properties,
                                          amqp_topic_prefix_len)
    IN  IF r.rc > 0 THEN [s EXCEPT !.amqp_topic_prefix = r.out] ELSE s

\* the encode loop as an if: one doubling at most
encode_loop_once(size, n) == IF n > size THEN size * 2 ELSE size

RECURSIVE encode_loop(_, _)
\* the while loop around pn_message_encode: PN_OVERFLOW while the n bytes of
\* the message do not fit, and the capacity doubles
encode_loop(size, n) == IF n > size THEN encode_loop(size * 2, n) ELSE size

\* the encoding part of encode_message for a message that needs n bytes:
\* the new capacity and the length of the range returned
encode_buffer(buffer, n) ==
    LET size0 == IF buffer = 0 THEN initial_size ELSE buffer
    IN  [buffer |-> encode_loop(size0, n), size |-> n]

encode_message(s) ==
    LET body == "sequence_" \o sprintf_d(s.sent)
        e == encode_buffer(s.message_buffer, pn_message_encode_size(body))
    IN  [s EXCEPT !.message_buffer = e.buffer,
                  !.msgbuf = [size |-> e.size, body |-> body]]

\* the loop condition with <= for <
may_send_off_by_one(s) == s.credit > 0 /\ s.sent <= s.message_count

\* the loop condition of the PN_LINK_FLOW case
may_send(s) == s.credit > 0 /\ s.sent < s.message_count

RECURSIVE send_loop_encode_first(_)
\* the send loop encoding the message before it counts it
send_loop_encode_first(s) ==
    IF may_send(s)
    THEN LET s1 == encode_message(s)
             s2 == [s1 EXCEPT !.sent = @ + 1]
             d == [tag |-> pn_dtag(s2.sent), body |-> s2.msgbuf.body,
                   size |-> s2.msgbuf.size]
         IN  send_loop_encode_first([s2 EXCEPT !.deliveries = Append(@, d),
                                               !.credit = @ - 1])
    ELSE s

RECURSIVE send_loop(_)
\* the while loop of the PN_LINK_FLOW case
send_loop(s) ==
    IF may_send(s)
    THEN LET s1 == [s EXCEPT !.sent = @ + 1]
             s2 == encode_message(s1)
             d == [tag |-> pn_dtag(s1.sent), body |-> s2.msgbuf.body,
                   size |-> s2.msgbuf.size]
         IN  send_loop([s2 EXCEPT !.deliveries = Append(@, d),
                                  !.credit = @ - 1])
    ELSE s

handle_PN_CONNECTION_INIT(s) ==
    [app |-> [s EXCEPT !.conn_local = pn_connection_open(@)], ret |-> TRUE]

\* the remote-open case going on to open the link after a failed resolution
handle_REMOTE_OPEN_no_return(s) ==
    LET s1 == set_topic_prefix_from_connection(s)
        s2 == [s1 EXCEPT !.session_open = TRUE]
        a == amqp_destination_address(PN_MAX_ADDR, s2.amqp_address,
                                      s2.amqp_topic_prefix)
        s3 == IF a.rc < 0 THEN [s2 EXCEPT !.exit_code = 1] ELSE s2
    IN  [app |-> [s3 EXCEPT !.target_address = a.out, !.link_open = TRUE],
         ret |-> TRUE]

handle_PN_CONNECTION_REMOTE_OPEN(s) ==
    LET s1 == set_topic_prefix_from_connection(s)
        s2 == [s1 EXCEPT !.session_open = TRUE]
        a == amqp_destination_address(PN_MAX_ADDR, s2.amqp_address,
                                      s2.amqp_topic_prefix)
    IN  IF a.rc < 0
        THEN [app |-> [s2 EXCEPT !.exit_code = 1], ret |-> FALSE]
        ELSE [app |-> [s2 EXCEPT !.target_address = a.out, !.link_open = TRUE],
              ret |-> TRUE]

\* the link-flow case with an if for the while: one message per event
handle_PN_LINK_FLOW_once(s) ==
    IF may_send(s)
    THEN LET s1 == [s EXCEPT !.sent = @ + 1]
             s2 == encode_message(s1)
             d == [tag |-> pn_dtag(s1.sent), body |-> s2.msgbuf.body,
                   size |-> s2.msgbuf.size]
         IN  [app |-> [s2 EXCEPT !.deliveries = Append(@, d), !.credit = @ - 1],
              ret |-> TRUE]
    ELSE [app |-> s, ret |-> TRUE]

handle_PN_LINK_FLOW(s) == [app |-> send_loop(s), ret |-> TRUE]

\* the delivery case clearing the exit code when the last message is
\* acknowledged
handle_PN_DELIVERY_reset(s, state, cond) ==
    IF state = PN_ACCEPTED
    THEN LET s1 == [s EXCEPT !.acknowledged = @ + 1]
         IN  IF s1.acknowledged = s1.message_count
             THEN [app |-> [s1 EXCEPT !.conn_local = pn_connection_close(@),
                                      !.exit_code = 0],
                   ret |-> TRUE]
             ELSE [app |-> s1, ret |-> TRUE]
    ELSE LET s1 == check_condition(s, cond)
         IN  [app |-> [s1 EXCEPT !.conn_local = pn_connection_close(@),
                                 !.exit_code = 1],
              ret |-> TRUE]

\* the delivery case leaving a non-accepted outcome to check_condition alone
handle_PN_DELIVERY_condition_only(s, state, cond) ==
    IF state = PN_ACCEPTED
    THEN LET s1 == [s EXCEPT !.acknowledged = @ + 1]
         IN  IF s1.acknowledged = s1.message_count
             THEN [app |-> [s1 EXCEPT !.conn_local = pn_connection_close(@)],
                   ret |-> TRUE]
             ELSE [app |-> s1, ret |-> TRUE]
    ELSE [app |-> check_condition(s, cond), ret |-> TRUE]

\* the delivery case counting the event before it looks at the outcome
handle_PN_DELIVERY_count_all(s, state, cond) ==
    LET s1 == [s EXCEPT !.acknowledged = @ + 1]
    IN  IF state = PN_ACCEPTED
        THEN IF s1.acknowledged = s1.message_count
             THEN [app |-> [s1 EXCEPT !.conn_local = pn_connection_close(@)],
                   ret |-> TRUE]
             ELSE [app |-> s1, ret |-> TRUE]
        ELSE LET s2 == check_condition(s1, cond)
             IN  [app |-> [s2 EXCEPT !.conn_local = pn_connection_close(@),
                                     !.exit_code = 1],
                  ret |-> TRUE]

\* state is pn_delivery_remote_state(d), cond whether the condition of the
\* remote disposition is set
handle_PN_DELIVERY(s, state, cond) ==
    IF state = PN_ACCEPTED
    THEN LET s1 == [s EXCEPT !.acknowledged = @ + 1]
         IN  IF s1.acknowledged = s1.message_count
             THEN [app |-> [s1 EXCEPT !.conn_local = pn_connection_close(@)],
                   ret |-> TRUE]
             ELSE [app |-> s1, ret |-> TRUE]
    ELSE LET s1 == check_condition(s, cond)
         IN  [app |-> [s1 EXCEPT !.conn_local = pn_connection_close(@),
                                 !.exit_code = 1],
              ret |-> TRUE]

handle_PN_TRANSPORT_CLOSED(s, cond) ==
    [app |-> check_condition(s, cond), ret |-> TRUE]

\* the remote close cases ending the run at once
handle_REMOTE_CLOSE_stop(s, cond) ==
    LET s1 == check_condition(s, cond)
    IN  [app |-> [s1 EXCEPT !.conn_local = pn_connection_close(@)], ret |-> FALSE]

\* the remote close cases putting the default prefix back
handle_REMOTE_CLOSE_reset_prefix(s, cond) ==
    LET s1 == check_condition(s, cond)
    IN  [app |-> [s1 EXCEPT !.conn_local = pn_connection_close(@),
                            !.amqp_topic_prefix = DEFAULT_AMQP_TOPIC_PREFIX],
         ret |-> TRUE]

\* PN_CONNECTION_REMOTE_CLOSE, PN_SESSION_REMOTE_CLOSE, PN_LINK_REMOTE_CLOSE
\* and PN_LINK_REMOTE_DETACH: the same two calls, on the condition of the
\* endpoint the event is about
handle_REMOTE_CLOSE(s, cond) ==
    LET s1 == check_condition(s, cond)
    IN  [app |-> [s1 EXCEPT !.conn_local = pn_connection_close(@)], ret |-> TRUE]

handle_PN_PROACTOR_INACTIVE(s) == [app |-> s, ret |-> FALSE]

\* every other event type: default: break
handle_default(s) == [app |-> s, ret |-> TRUE]

(* ---------------------------------------------------------------- actions *)

\* run(): the result r of handle() becomes the state; run returns when
\* handle() returned false
Handled(r, ev) ==
    /\ amqp_topic_prefix' = r.app.amqp_topic_prefix
    /\ sent' = r.app.sent
    /\ acknowledged' = r.app.acknowledged
    /\ message_buffer' = r.app.message_buffer
    /\ exit_code' = r.app.exit_code
    /\ conn_local' = r.app.conn_local
    /\ session_open' = r.app.session_open
    /\ link_open' = r.app.link_open
    /\ target_address' = r.app.target_address
    /\ credit' = r.app.credit
    /\ deliveries' = r.app.deliveries
    /\ msgbuf' = r.app.msgbuf
    /\ running' = r.ret
    /\ last' = [ev EXCEPT !.ret = r.ret]
    /\ UNCHANGED <<message_count, amqp_address, remote_properties>>

\* main() after parse_args: the counters are 0, the buffer is not allocated,
\* the prefix is the default
Init ==
    /\ message_count \in 0..MaxCount
    /\ amqp_address \in Topics
    /\ remote_properties \in RemoteProperties
    /\ amqp_topic_prefix = DEFAULT_AMQP_TOPIC_PREFIX
    /\ sent = 0
    /\ acknowledged = 0
    /\ message_buffer = 0
    /\ msgbuf = [size |-> 0, body |-> ""]
    /\ exit_code = 0
    /\ running = TRUE
    /\ conn_local = "uninit"
    /\ session_open = FALSE
    /\ link_open = FALSE
    /\ target_address = ""
    /\ credit = 0
    /\ deliveries = <<>>
    /\ peer = "unopened"
    /\ transport_closed = FALSE
    /\ rejected_seen = FALSE
    /\ last = NoEvent

ConnectionInit ==
    /\ running /\ ~transport_closed
    /\ conn_local = "uninit"
    /\ Handled(handle_PN_CONNECTION_INIT(App),
               Event("PN_CONNECTION_INIT", FALSE, NoOutcome, 0, TRUE))
    /\ UNCHANGED <<peer, transport_closed, rejected_seen>>

ConnectionRemoteOpen ==
    /\ running /\ ~transport_closed
    /\ conn_local # "uninit"
    /\ peer = "unopened"
    /\ Handled(handle_PN_CONNECTION_REMOTE_OPEN(App),
               Event("PN_CONNECTION_REMOTE_OPEN", FALSE, NoOutcome, 0, TRUE))
    /\ peer' = "open"
    /\ UNCHANGED <<transport_closed, rejected_seen>>

\* the broker grants g more credit and the flow event is handled
LinkFlow(g) ==
    /\ running /\ ~transport_closed
    /\ link_open
    /\ peer = "open"
    /\ credit + g <= MaxCredit
    /\ Handled(handle_PN_LINK_FLOW([App EXCEPT !.credit = credit + g]),
               Event("PN_LINK_FLOW", FALSE, NoOutcome, credit + g, TRUE))
    /\ UNCHANGED <<peer, transport_closed, rejected_seen>>

\* the broker updates delivery number k, one the producer issued
Delivery(k, state, cond) ==
    /\ running /\ ~transport_closed
    /\ link_open
    /\ peer = "open"
    /\ k \in 1..Len(deliveries)
    /\ cond => state = PN_REJECTED
    /\ state = PN_ACCEPTED => acknowledged <= MaxCount
    /\ Handled(handle_PN_DELIVERY(App, state, cond),
               Event("PN_DELIVERY", cond, state, credit, TRUE))
    /\ rejected_seen' = (rejected_seen \/ state # PN_ACCEPTED)
    /\ UNCHANGED <<peer, transport_closed>>

\* without a condition the transport closes only after both ends closed
TransportClosed(cond) ==
    /\ running /\ ~transport_closed
    /\ conn_local # "uninit"
    /\ ~cond => (conn_local = "closed" /\ peer = "closed")
    /\ Handled(handle_PN_TRANSPORT_CLOSED(App, cond),
               Event("PN_TRANSPORT_CLOSED", cond, NoOutcome, credit, TRUE))
    /\ transport_closed' = TRUE
    /\ UNCHANGED <<peer, rejected_seen>>

ConnectionRemoteClose(cond) ==
    /\ running /\ ~transport_closed
    /\ peer \in {"open", "link_closed", "session_closed"}
    /\ Handled(handle_REMOTE_CLOSE(App, cond),
               Event("PN_CONNECTION_REMOTE_CLOSE", cond, NoOutcome, credit, TRUE))
    /\ peer' = "closed"
    /\ UNCHANGED <<transport_closed, rejected_seen>>

SessionRemoteClose(cond) ==
    /\ running /\ ~transport_closed
    /\ session_open
    /\ peer \in {"open", "link_closed"}
    /\ Handled(handle_REMOTE_CLOSE(App, cond),
               Event("PN_SESSION_REMOTE_CLOSE", cond, NoOutcome, credit, TRUE))
    /\ peer' = "session_closed"
    /\ UNCHANGED <<transport_closed, rejected_seen>>

\* type is PN_LINK_REMOTE_CLOSE or PN_LINK_REMOTE_DETACH
LinkRemoteClose(type, cond) ==
    /\ running /\ ~transport_closed
    /\ link_open
    /\ peer = "open"
    /\ Handled(handle_REMOTE_CLOSE(App, cond),
               Event(type, cond, NoOutcome, credit, TRUE))
    /\ peer' = "link_closed"
    /\ UNCHANGED <<transport_closed, rejected_seen>>

\* the proactor has nothing left once the transport is closed
ProactorInactive ==
    /\ running
    /\ transport_closed
    /\ Handled(handle_PN_PROACTOR_INACTIVE(App),
               Event("PN_PROACTOR_INACTIVE", FALSE, NoOutcome, credit, FALSE))
    /\ UNCHANGED <<peer, transport_closed, rejected_seen>>

\* an event of a type handle() has no case for
OtherEvent ==
    /\ running /\ ~transport_closed
    /\ conn_local # "uninit"
    /\ Handled(handle_default(App),
               Event("other", FALSE, NoOutcome, credit, TRUE))
    /\ UNCHANGED <<peer, transport_closed, rejected_seen>>

Next ==
    \/ ConnectionInit
    \/ ConnectionRemoteOpen
    \/ \E g \in 0..MaxCredit : LinkFlow(g)
    \/ \E k \in 1..MaxCount, state \in RemoteStates, cond \in BOOLEAN :
           Delivery(k, state, cond)
    \/ \E cond \in BOOLEAN : TransportClosed(cond)
    \/ \E cond \in BOOLEAN : ConnectionRemoteClose(cond)
    \/ \E cond \in BOOLEAN : SessionRemoteClose(cond)
    \/ \E type \in {"PN_LINK_REMOTE_CLOSE", "PN_LINK_REMOTE_DETACH"},
          cond \in BOOLEAN : LinkRemoteClose(type, cond)
    \/ ProactorInactive
    \/ OtherEvent

Spec == Init /\ [][Next]_vars

(* -------------------------------------------- a run against a good broker *)

\* The broker opens the connection, grants credit whenever the link has none,
\* accepts every delivery once and in order, answers a requested close with
\* its own close, and the proactor goes inactive after the transport closed.
LiveInit ==
    /\ Init
    /\ amqp_address # LongTopic

GoodFlow == \E g \in 1..MaxCredit : credit = 0 /\ LinkFlow(g)

GoodDelivery ==
    /\ acknowledged < Len(deliveries)
    /\ Delivery(acknowledged + 1, PN_ACCEPTED, FALSE)

GoodRemoteClose == conn_local = "closed" /\ ConnectionRemoteClose(FALSE)

GoodTransportClosed == TransportClosed(FALSE)

LiveNext ==
    \/ ConnectionInit
    \/ ConnectionRemoteOpen
    \/ GoodFlow
    \/ GoodDelivery
    \/ GoodRemoteClose
    \/ GoodTransportClosed
    \/ ProactorInactive

\* run() handles every event the proactor delivers, and the broker of this
\* specification always takes its next step
LiveSpec == LiveInit /\ [][LiveNext]_vars /\ WF_vars(LiveNext)

(* ------------------------------------------------ encode_message by itself *)

EncInit ==
    /\ Init
    /\ message_count = MaxCount
    /\ amqp_address = "my_topic"
    /\ remote_properties.kind = "absent"

\* one call of the encoding part for a message that serializes to n bytes
EncodeStep(n) ==
    LET e == encode_buffer(message_buffer, n)
    IN  /\ message_buffer' = e.buffer
        /\ msgbuf' = [size |-> e.size, body |-> ""]
        /\ last' = [Event("encode", FALSE, NoOutcome, 0, TRUE) EXCEPT !.need = n]
        /\ UNCHANGED <<message_count, amqp_address, amqp_topic_prefix, sent,
                       acknowledged, exit_code, running, conn_local,
                       session_open, link_open, target_address, credit,
                       deliveries, remote_properties, peer, transport_closed,
                       rejected_seen>>

EncNext == \E n \in 1..MaxEncoded : EncodeStep(n)

EncSpec == EncInit /\ [][EncNext]_vars

(* ------------------------------------------------------------- properties *)

\* C1: against a good broker the run requests a close and stops with every
\* message sent and acknowledged and exit status 0, for every message_count
\* >= 0.
C1_RunCompletes ==
    /\ <>(conn_local = "closed")
    /\ <>(/\ ~running
          /\ sent = message_count
          /\ acknowledged = message_count
          /\ exit_code = 0)

\* C2: sent stays between 0 and message_count, whatever credit arrives and
\* whenever it arrives.
C2_SentBounded == 0 <= sent /\ sent <= message_count

\* a flow event handled after a close was requested, with more credit than
\* messages left, that sent the last message
C2_Witness ==
    /\ last.type = "PN_LINK_FLOW"
    /\ conn_local = "closed"
    /\ credit > 0
    /\ sent = message_count
    /\ last.credit - credit >= 1

\* C3: acknowledged never exceeds sent, also when the broker raises several
\* delivery events for one delivery the producer issued.
C3_AcknowledgedAtMostSent == acknowledged <= sent

\* C4: a run that stopped with exit status 0 has sent and had acknowledged
\* every message.
C4_ExitZeroMeansAllDone ==
    (~running /\ exit_code = 0) =>
        (sent = message_count /\ acknowledged = message_count)

\* C5: once a non-accepted delivery event has been handled, sent never
\* increases again.
C5_NoSendAfterReject == [][rejected_seen => sent' = sent]_vars

\* C6: when prefix and topic name do not fit the address at remote-open, the
\* exit status is 1, the link is not opened, the run has stopped in that very
\* step, nothing was sent and no event was handled since.
C6_AddressTooLong ==
    (/\ peer # "unopened"
     /\ amqp_destination_address(PN_MAX_ADDR, amqp_address,
                                 amqp_topic_prefix).rc < 0)
    => /\ exit_code = 1
       /\ ~link_open
       /\ target_address = ""
       /\ ~running
       /\ sent = 0
       /\ last.type = "PN_CONNECTION_REMOTE_OPEN"
       /\ last.ret = FALSE

C6_Witness ==
    /\ last.type = "PN_CONNECTION_REMOTE_OPEN"
    /\ Len(amqp_topic_prefix) + Len(amqp_address) > PN_MAX_ADDR
    /\ ~running

\* the prefix the broker advertises, when it advertises a string
AdvertisedPrefix ==
    IF remote_properties.kind = "string"
    THEN remote_properties.value
    ELSE DEFAULT_AMQP_TOPIC_PREFIX

\* C7 as stated: the address of the link is the advertised prefix, when the
\* property is present and a string, or else the default prefix, followed
\* by the topic name.
C7_AddressAsStated ==
    link_open => target_address = AdvertisedPrefix \o amqp_address

\* the advertised prefix, when it is a string that fits the scratch buffer
\* of the lookup
UsablePrefix ==
    IF /\ remote_properties.kind = "string"
       /\ Len(remote_properties.value) < amqp_topic_prefix_len
    THEN remote_properties.value
    ELSE DEFAULT_AMQP_TOPIC_PREFIX

\* C7 amended: the address of the link is the advertised prefix, when the
\* property is present, a string and fits the 255-byte scratch buffer, or else
\* the default prefix, followed by the topic name with no separator.
C7_AddressResolved ==
    link_open => target_address = UsablePrefix \o amqp_address

C7_Witness ==
    /\ link_open
    /\ remote_properties.value = "acme/"
    /\ amqp_address = "orders"
    /\ target_address = "acme/orders"

\* the capacities the encode buffer can have: none yet, or 128 doubled
IsCapacity(c) == c = 0 \/ \E k \in 0..20 : c = initial_size * (2 ^ k)

\* C8: the capacity starts at 128, only doubles and never shrinks, and every
\* encode of a message of n bytes returns a range of n bytes that fits it.
C8_BufferGrowth ==
    /\ message_buffer = 0
    /\ [](/\ IsCapacity(message_buffer)
          /\ msgbuf.size <= message_buffer
          /\ msgbuf.size = last.need)
    /\ [][/\ message_buffer' >= message_buffer
          /\ message_buffer' >= initial_size
          /\ message_buffer # 0 =>
                \E k \in 0..20 : message_buffer' = message_buffer * (2 ^ k)]_vars

\* an encode that had to double the buffer more than once
C8_Witness ==
    /\ last.type = "encode"
    /\ last.need > 2 * initial_size
    /\ msgbuf.size = last.need
    /\ message_buffer >= 4 * initial_size

\* C9: after an event whose condition is set, or a delivery event with a
\* non-accepted outcome, the exit status is 1, a close is requested, and the
\* handler returned true so the run goes on.
C9_ConditionReported ==
    (\/ /\ last.cond
        /\ last.type \in {"PN_TRANSPORT_CLOSED", "PN_CONNECTION_REMOTE_CLOSE",
                          "PN_SESSION_REMOTE_CLOSE", "PN_LINK_REMOTE_CLOSE",
                          "PN_LINK_REMOTE_DETACH", "PN_DELIVERY"}
     \/ /\ last.type = "PN_DELIVERY"
        /\ last.outcome # PN_ACCEPTED)
    => /\ exit_code = 1
       /\ conn_local = "closed"
       /\ last.ret = TRUE
       /\ running

C9_Witness ==
    /\ last.cond
    /\ last.type = "PN_TRANSPORT_CLOSED"
    /\ running

\* C10: the exit status is 0 at the start and, once 1, stays 1.
C10_ExitCodeMonotone ==
    /\ exit_code = 0
    /\ [][exit_code = 1 => exit_code' = 1]_vars

\* an accepted delivery completing the count after a failure
C10_Witness ==
    /\ exit_code = 1
    /\ last.type = "PN_DELIVERY"
    /\ last.outcome = PN_ACCEPTED
    /\ acknowledged = message_count

\* C11: whenever acknowledged equals message_count, a close of the connection
\* has been requested, for every message_count >= 0.
C11_ClosingWhenAllAcknowledged ==
    acknowledged = message_count => conn_local = "closed"

\* the number a delivery tag holds: its four bytes, low byte first
TagNumber(tag) == tag[1] + 256 * tag[2] + 65536 * tag[3] + 16777216 * tag[4]

\* C12: the k-th message sent has body "sequence_k" and tag k, for k = 1 ..
\* sent, so the numbers rise by one without gap or repetition and no two
\* deliveries share a tag.
C12_SequenceNumbers ==
    /\ Len(deliveries) = sent
    /\ \A k \in 1..Len(deliveries) :
          /\ deliveries[k].body = "sequence_" \o ToString(k)
          /\ TagNumber(deliveries[k].tag) = k
    /\ \A i, j \in 1..Len(deliveries) :
          deliveries[i].tag = deliveries[j].tag => i = j

\* all messages of the largest count sent, over more than one flow event
C12_Witness ==
    /\ sent = MaxCount
    /\ Len(deliveries) = MaxCount
    /\ last.type = "PN_LINK_FLOW"
    /\ last.credit < MaxCount

\* the smaller of two numbers
Min(a, b) == IF a < b THEN a ELSE b

\* C13: a link-flow event handled with credit c at counter s sends exactly
\* min(c, message_count - s) messages, one per unit of credit, and leaves
\* credit = 0 or sent = message_count; with no credit nothing is sent.
C13_CreditGated ==
    [][last'.type = "PN_LINK_FLOW" =>
          /\ sent' - sent = Min(last'.credit, message_count - sent)
          /\ credit' = last'.credit - (sent' - sent)
          /\ Len(deliveries') - Len(deliveries) = sent' - sent
          /\ (credit' = 0 \/ sent' = message_count)
          /\ (last'.credit = 0 => sent' = sent)]_vars

\* a flow event that used up two units of credit with messages left over
C13_Witness ==
    /\ last.type = "PN_LINK_FLOW"
    /\ last.credit >= 2
    /\ credit = 0
    /\ sent >= 2
    /\ sent < message_count

\* the events whose case calls check_condition and nothing that sets the
\* exit code
ConditionEvents ==
    {"PN_TRANSPORT_CLOSED", "PN_CONNECTION_REMOTE_CLOSE",
     "PN_SESSION_REMOTE_CLOSE", "PN_LINK_REMOTE_CLOSE", "PN_LINK_REMOTE_DETACH"}

\* C14 as stated: after every event whose case calls check_condition, set
\* condition or not, the exit status is 1 and a close is requested.
C14_AlwaysFails ==
    last.type \in ConditionEvents =>
        (exit_code = 1 /\ conn_local = "closed")

\* C14 amended: check_condition marks the exit status failed and requests a
\* close when the condition is set; when it is not set the exit status stays
\* what it was, and after transport-closed so does the connection.
C14_OnlyWhenSet ==
    [][last'.type \in ConditionEvents =>
          IF last'.cond
          THEN exit_code' = 1 /\ conn_local' = "closed"
          ELSE /\ exit_code' = exit_code
               /\ last'.type = "PN_TRANSPORT_CLOSED" =>
                      conn_local' = conn_local]_vars

\* the transport closed without a condition and the run has not failed
C14_Witness ==
    /\ last.type = "PN_TRANSPORT_CLOSED"
    /\ ~last.cond
    /\ exit_code = 0

\* C15: a delivery event with any remote outcome but accepted sets the exit
\* status to 1 and requests a close, with or without a set condition, and
\* leaves acknowledged as it was.
C15_NonAcceptedFails ==
    [][(last'.type = "PN_DELIVERY" /\ last'.outcome # PN_ACCEPTED) =>
          /\ exit_code' = 1
          /\ conn_local' = "closed"
          /\ acknowledged' = acknowledged
          /\ running']_vars

\* a released delivery without a condition, after an acknowledged one
C15_Witness ==
    /\ last.type = "PN_DELIVERY"
    /\ last.outcome = PN_RELEASED
    /\ ~last.cond
    /\ acknowledged >= 1
    /\ exit_code = 1

\* the broker advertises no prefix the lookup can hand over: none, not a
\* string, or a string too long for the scratch buffer
PrefixUnusable ==
    \/ remote_properties.kind # "string"
    \/ Len(remote_properties.value) >= amqp_topic_prefix_len

\* prefix and topic name fit the address buffer
AddressFits(prefix) == Len(prefix) + Len(amqp_address) < PN_MAX_ADDR

\* C16 as stated: with no usable prefix advertised, handling remote-opened
\* leaves prefix and exit status unchanged and opens session and link with
\* the prefix there was.
C16_NegotiationAsStated ==
    [][(last'.type = "PN_CONNECTION_REMOTE_OPEN" /\ PrefixUnusable) =>
          /\ amqp_topic_prefix' = amqp_topic_prefix
          /\ exit_code' = exit_code
          /\ session_open'
          /\ link_open'
          /\ target_address' = amqp_topic_prefix \o amqp_address]_vars

\* C16 amended: with no usable prefix advertised, handling remote-opened
\* leaves the prefix unchanged and opens the session; when the prefix and the
\* topic name fit the maximum address length it also leaves the exit status
\* unchanged and opens the link with the prefix there was.
C16_NegotiationNeverFails ==
    [][(last'.type = "PN_CONNECTION_REMOTE_OPEN" /\ PrefixUnusable) =>
          /\ amqp_topic_prefix' = amqp_topic_prefix
          /\ session_open'
          /\ AddressFits(amqp_topic_prefix) =>
                /\ exit_code' = exit_code
                /\ running'
                /\ link_open'
                /\ target_address' = amqp_topic_prefix \o amqp_address]_vars

\* the link opened with the default prefix although a prefix was advertised,
\* one too long for the lookup
C16_Witness ==
    /\ last.type = "PN_CONNECTION_REMOTE_OPEN"
    /\ remote_properties.kind = "string"
    /\ PrefixUnusable
    /\ link_open
    /\ exit_code = 0
    /\ target_address = "topic://orders"

\* C17: once a close is requested every further event is still handled, and
\* the run stops only with a transport-closed or proactor-inactive event,
\* after the transport was reported closed.
C17_RunsUntilTransportClosed ==
    [][(conn_local = "closed" /\ running /\ ~running') =>
          /\ last'.type \in {"PN_TRANSPORT_CLOSED", "PN_PROACTOR_INACTIVE"}
          /\ transport_closed']_vars

\* an event handled after the close was requested, the run going on
C17_Witness ==
    /\ last.type \in {"PN_LINK_FLOW", "other"}
    /\ conn_local = "closed"
    /\ rejected_seen
    /\ running

\* C18: when the run has stopped, a close of the connection was requested
\* or the transport reported it closed.
C18_StopsOnlyClosed ==
    ~running => (conn_local = "closed" \/ transport_closed)

\* C19: sent changes only in a link-flow event, by one per message issued;
\* acknowledged changes only in a delivery event with accepted outcome, by
\* one; every other event leaves both as they were.
C19_CountersFrame ==
    [][/\ sent' # sent =>
             /\ last'.type = "PN_LINK_FLOW"
             /\ sent' > sent
             /\ sent' - sent = Len(deliveries') - Len(deliveries)
       /\ acknowledged' # acknowledged =>
             /\ last'.type = "PN_DELIVERY"
             /\ last'.outcome = PN_ACCEPTED
       /\ (last'.type = "PN_DELIVERY" /\ last'.outcome = PN_ACCEPTED) =>
             acknowledged' = acknowledged + 1
       /\ last'.type # "PN_LINK_FLOW" => deliveries' = deliveries]_vars

\* a detach handled with both counters above 0
C19_Witness ==
    /\ last.type = "PN_LINK_REMOTE_DETACH"
    /\ sent >= 2
    /\ acknowledged >= 1

\* C20: the prefix changes only in connection-remote-opened and only to a
\* usable advertised value; once the link is open, prefix and link address
\* stay what they are.
C20_PrefixFrame ==
    [][/\ amqp_topic_prefix' # amqp_topic_prefix =>
             /\ last'.type = "PN_CONNECTION_REMOTE_OPEN"
             /\ ~PrefixUnusable
             /\ amqp_topic_prefix' = remote_properties.value
       /\ link_open =>
             /\ link_open'
             /\ amqp_topic_prefix' = amqp_topic_prefix
             /\ target_address' = target_address]_vars

\* the end of a run that sent messages to the advertised prefix
C20_Witness ==
    /\ last.type = "PN_PROACTOR_INACTIVE"
    /\ amqp_topic_prefix = "acme/"
    /\ target_address = "acme/my_topic"
    /\ sent >= 1

====
